---- MODULE Spec2Model ----
(***************************************************************************)
(* Model of mautic-fix-db-ai (src/src/index.ts, src/src/db.ts).            *)
(*                                                                         *)
(* One run of main(): argument parsing, constraint-name extraction, SSH    *)
(* tunnel setup, the pool, the battery of schema queries issued by         *)
(* generatePrompt, printing, the catch block and the finally block.        *)
(*                                                                         *)
(* Strings are sequences of one-character strings.  Fixed pieces of SQL    *)
(* text and of messages are single tokens (for instance "DESCRIBE ").      *)
(***************************************************************************)
EXTENDS Integers, Sequences, FiniteSets, TLC

(***************************************************************************)
(* Bounds of the model.                                                    *)
(***************************************************************************)
MaxNameLen == 1      \* longest constraint name returned by the extractor
MaxTableLen == 1     \* longest table name returned by the constraint lookup
MaxRows == 2         \* most descriptor rows returned by the constraint lookup
MaxErrLen == 1       \* longest value given with --error=
MaxEscLen == 4       \* longest input of the escaper specification
MaxErrTextLen == 3   \* longest --error= value of the error-text specification

\* One-character strings.  The backtick and the single quote are written as
\* tokens, because the backtick cannot appear inside a TLA+ string.
BT == "BACKTICK"
SQ == "QUOTE"
EQ == "="

\* Characters of the constraint name the extractor returns; the name is used
\* in literal position, where the single quote is the character that matters.
NameAlphabet == {"a", SQ}
\* Characters of the table names the catalog returns; they are used in
\* identifier position, where the backtick is the character that matters.
TableAlphabet == {"t", BT}
\* Characters of the inputs of the escaper specification.
EscAlphabet == {"a", BT, SQ}
\* Characters of the error text given on the command line.
ErrAlphabet == {"e", EQ}

StringsOver(alphabet, n) == UNION {[1..k -> alphabet] : k \in 0..n}

(***************************************************************************)
(* String helpers of the JavaScript runtime, as the code uses them.        *)
(***************************************************************************)

\* A plausible slip: replace without the g flag replaces the first match only.
RECURSIVE replaceFirst(_, _, _)
replaceFirst(s, c, rep) ==
  IF s = <<>> THEN <<>>
  ELSE IF Head(s) = c THEN rep \o Tail(s)
       ELSE <<Head(s)>> \o replaceFirst(Tail(s), c, rep)

\* String.prototype.replace(/c/g, rep): every occurrence of c becomes rep.
RECURSIVE replaceAll(_, _, _)
replaceAll(s, c, rep) ==
  IF s = <<>> THEN <<>>
  ELSE (IF Head(s) = c THEN rep ELSE <<Head(s)>>) \o replaceAll(Tail(s), c, rep)

\* index.ts 52-54
escapeIdentifier(identifier) ==
  <<BT>> \o replaceAll(identifier, BT, <<BT, BT>>) \o <<BT>>

\* index.ts 56-58
escapeLiteral(str) ==
  <<SQ>> \o replaceAll(str, SQ, <<SQ, SQ>>) \o <<SQ>>

\* String.prototype.split(sep): the segments between the occurrences of sep.
RECURSIVE split(_, _)
split(s, sep) ==
  IF s = <<>> THEN << <<>> >>
  ELSE LET rest == split(Tail(s), sep)
       IN IF Head(s) = sep
            THEN << <<>> >> \o rest
            ELSE << <<Head(s)>> \o rest[1] >> \o Tail(rest)

\* String.prototype.startsWith
startsWith(s, prefix) ==
  /\ Len(s) >= Len(prefix)
  /\ SubSeq(s, 1, Len(prefix)) = prefix


(***************************************************************************)
(* Configuration and inputs.                                               *)
(***************************************************************************)

\* DB_CONFIG.database (index.ts 40): the configured schema name.
Database == <<"d">>

\* The limit parameter's default in getSampleData (index.ts 231).
SampleLimit == 5

DebugArg == <<"--debug">>
ErrorPrefix == <<"--error", EQ>>

\* process.argv.slice(2): an optional --debug and an optional --error=<text>.
ArgLists ==
  { d \o e :
      d \in {<<>>, <<DebugArg>>},
      e \in {<<>>} \cup { <<ErrorPrefix \o v>> : v \in StringsOver(ErrAlphabet, MaxErrLen) } }

\* What the extractor can answer (response.trim(), index.ts 68): any string.
ConstraintNames == StringsOver(NameAlphabet, MaxNameLen)

\* Table names the catalog can hold.
TableNames == StringsOver(TableAlphabet, MaxTableLen) \ {<<>>}

\* One descriptor row of the constraint lookup (index.ts 127-130); the
\* remaining columns of the row do not influence the control flow.
DescriptorRow(referencing, referenced, i) ==
  [ referencing_table  |-> referencing,
    referencing_column |-> <<"c", ToString(i)>>,
    referenced_table   |-> referenced,
    referenced_column  |-> <<"r", ToString(i)>> ]

\* The row sets the constraint lookup can return: none, or one row per
\* column pair of the key, all rows naming the same pair of tables.
DescriptorSets ==
  {<<>>} \cup
  { [i \in 1..n |-> DescriptorRow(a, b, i)] :
      n \in 1..MaxRows, a \in TableNames, b \in TableNames }

\* The rows a successful query returns, kept abstract.
Rows(fact, table) == << [fact |-> fact, of |-> table] >>

NoError == [kind |-> "none", message |-> <<>>]

(***************************************************************************)
(* State.                                                                  *)
(***************************************************************************)
VARIABLES
  args,            \* process.argv.slice(2)
  debugMode,       \* index.ts 73
  mauticError,     \* index.ts 76 (null and "" are both the empty string here)
  pc,              \* position of main / generatePrompt
  constraintName,  \* index.ts 87
  constraintInfo,  \* index.ts 171
  facts,           \* results of the completed queries, by local variable name
  queries,         \* every statement sent to the pool, in order
  stdout,          \* lines written with console.log
  stderr,          \* lines written with console.error or by the runtime
  mysql,           \* index.ts 83/106: TRUE once the MySQL object exists
  sshClient,       \* index.ts 84/93: TRUE once the Client object exists
  poolEndCalls,    \* calls of mysql.connection.end()
  sshEndCalls,     \* calls of sshClient.end()
  exitStatus,      \* -1 while running, else the process exit status
  error,           \* the error caught at index.ts 112
  escFn,           \* escaper specification: which escaper was applied
  escIn,           \* escaper specification: its input
  escOut           \* escaper specification: its output

mainVars ==
  <<args, debugMode, mauticError, pc, constraintName, constraintInfo, facts,
    queries, stdout, stderr, mysql, sshClient, poolEndCalls, sshEndCalls,
    exitStatus, error>>

escVars == <<escFn, escIn, escOut>>

vars == <<mainVars, escVars>>

InitMain(a) ==
  /\ args = a
  /\ debugMode = FALSE
  /\ mauticError = <<>>
  /\ pc = "start"
  /\ constraintName = <<>>
  /\ constraintInfo = <<>>
  /\ facts = <<>>
  /\ queries = <<>>
  /\ stdout = <<>>
  /\ stderr = <<>>
  /\ mysql = FALSE
  /\ sshClient = FALSE
  /\ poolEndCalls = 0
  /\ sshEndCalls = 0
  /\ exitStatus = -1
  /\ error = NoError

InitEsc(s) ==
  /\ escFn = "none"
  /\ escIn = s
  /\ escOut = <<>>

Init ==
  /\ \E a \in ArgLists : InitMain(a)
  /\ InitEsc(<<>>)

(***************************************************************************)
(* main: argument parsing (index.ts 72-81).                                *)
(***************************************************************************)

\* Array.prototype.includes
includes(list, x) == \E i \in 1..Len(list) : list[i] = x

\* args.find(arg => arg.startsWith('--error=')); undefined is <<>>.
findErrorArg(list) ==
  LET hits == { i \in 1..Len(list) : startsWith(list[i], ErrorPrefix) }
  IN IF hits = {} THEN <<>>
     ELSE list[CHOOSE i \in hits : \A j \in hits : i <= j]

\* index.ts 76
parseMauticError(list) ==
  LET errorArg == findErrorArg(list)
  IN IF errorArg # <<>> THEN split(errorArg, EQ)[2] ELSE <<>>

Line(kind, text) == [kind |-> kind, text |-> text]

ParseArgs ==
  /\ pc = "start"
  /\ debugMode' = includes(args, DebugArg)
  /\ mauticError' = parseMauticError(args)
  /\ IF mauticError' = <<>>
       THEN /\ stderr' = Append(stderr, Line("usage", <<"Error: Please provide the Mautic error message">>))
            /\ exitStatus' = 1
            /\ pc' = "exited"
       ELSE /\ pc' = "extract"
            /\ UNCHANGED <<stderr, exitStatus>>
  /\ UNCHANGED <<args, constraintName, constraintInfo, facts, queries, stdout,
                 mysql, sshClient, poolEndCalls, sshEndCalls, error>>
  /\ UNCHANGED escVars

(***************************************************************************)
(* main: the try block up to the pool (index.ts 86-107).                   *)
(***************************************************************************)

\* A rejected await inside the try block: control moves to the catch block.
Throw(e) ==
  /\ pc' = "catch"
  /\ error' = e

DebugLog(text) ==
  stdout' = IF debugMode THEN Append(stdout, Line("debug", text)) ELSE stdout

\* index.ts 87-91 (extractConstraintName, 60-69)
ExtractConstraintName ==
  /\ pc = "extract"
  /\ \/ /\ Throw([kind |-> "extract", message |-> <<"extraction failed">>])
        /\ UNCHANGED <<constraintName, stdout>>
     \/ \E name \in ConstraintNames :
          /\ constraintName' = name
          /\ DebugLog(<<"Extracted constraint name:">> \o name)
          /\ pc' = "sshConnect"
          /\ UNCHANGED error
  /\ UNCHANGED <<args, debugMode, mauticError, constraintInfo, facts, queries,
                 stderr, mysql, sshClient, poolEndCalls, sshEndCalls, exitStatus>>
  /\ UNCHANGED escVars

\* index.ts 93-97
SshConnect ==
  /\ pc = "sshConnect"
  /\ sshClient' = TRUE
  /\ \/ /\ Throw([kind |-> "ssh", message |-> <<"ssh connection failed">>])
        /\ UNCHANGED stdout
     \/ /\ DebugLog(<<"SSH connection established">>)
        /\ pc' = "forwardOut"
        /\ UNCHANGED error
  /\ UNCHANGED <<args, debugMode, mauticError, constraintName, constraintInfo,
                 facts, queries, stderr, mysql, poolEndCalls, sshEndCalls,
                 exitStatus>>
  /\ UNCHANGED escVars

\* index.ts 99-107 (new MySQL: db.ts 13-16)
ForwardOut ==
  /\ pc = "forwardOut"
  /\ \/ /\ Throw([kind |-> "forward", message |-> <<"forwardOut failed">>])
        /\ UNCHANGED <<stdout, mysql>>
     \/ /\ mysql' = TRUE
        /\ DebugLog(<<"Successfully connected to the database over SSH.">>)
        /\ pc' = "findConstraint"
        /\ UNCHANGED error
  /\ UNCHANGED <<args, debugMode, mauticError, constraintName, constraintInfo,
                 facts, queries, stderr, sshClient, poolEndCalls, sshEndCalls,
                 exitStatus>>
  /\ UNCHANGED escVars

(***************************************************************************)
(* generatePrompt: the statements (index.ts 124-241).                      *)
(*                                                                         *)
(* A statement is recorded with its text, the dynamic values interpolated  *)
(* into the text (splices: the raw value, the syntactic position it lands  *)
(* in, and the characters actually interpolated), the values handed over   *)
(* as bound parameters, and what the statement reads: "catalog" for        *)
(* INFORMATION_SCHEMA views and table metadata, "server" for VERSION(),    *)
(* "table" for the rows of an application table.                           *)
(***************************************************************************)

Splice(position, value, spliced) ==
  [position |-> position, value |-> value, spliced |-> spliced]

Statement(op, text, splices, params, reads) ==
  [op |-> op, text |-> text, splices |-> splices, params |-> params,
   reads |-> reads, outcome |-> "pending"]

\* index.ts 125-169
findConstraintQuery(name) ==
  Statement("findConstraint",
    <<"SELECT", " ... FROM INFORMATION_SCHEMA.KEY_COLUMN_USAGE kcu JOIN INFORMATION_SCHEMA.TABLE_CONSTRAINTS tc ... JOIN INFORMATION_SCHEMA.COLUMNS c ... JOIN INFORMATION_SCHEMA.COLUMNS rc ... WHERE kcu.TABLE_SCHEMA = ">>
      \o escapeLiteral(Database)
      \o <<" AND tc.CONSTRAINT_TYPE = 'FOREIGN KEY' AND kcu.CONSTRAINT_NAME = ">>
      \o escapeLiteral(name),
    << Splice("literal", Database, escapeLiteral(Database)),
       Splice("literal", name, escapeLiteral(name)) >>,
    <<>>, "catalog")

\* index.ts 177
versionQuery ==
  Statement("serverVersion", <<"SELECT", " VERSION() as version">>, <<>>, <<>>, "server")

\* index.ts 180-184: the table name is escaped before it is interpolated.
describeQuery(op, table) ==
  LET escapedTable == escapeIdentifier(table)
  IN Statement(op, <<"DESCRIBE", " ">> \o escapedTable,
       << Splice("identifier", table, escapedTable) >>, <<>>, "catalog")

\* index.ts 186-189: getTableRowCount interpolates its argument as it is, and
\* index.ts 191-192 hands it the table name of the descriptor row.
getTableRowCountQuery(op, tableName) ==
  Statement(op, <<"SELECT", " COUNT(*) as count FROM ">> \o tableName,
    << Splice("identifier", tableName, tableName) >>, <<>>, "table")

\* index.ts 194-199: getTableIndexes, likewise.
getTableIndexesQuery(op, tableName) ==
  Statement(op, <<"SHOW", " INDEX FROM ">> \o tableName,
    << Splice("identifier", tableName, tableName) >>, <<>>, "catalog")

\* index.ts 201-216: executeRows with bound parameters.
getForeignKeysQuery(referencing, referenced) ==
  Statement("listForeignKeys",
    <<"SELECT", " TABLE_NAME, COLUMN_NAME, CONSTRAINT_NAME, REFERENCED_TABLE_NAME, REFERENCED_COLUMN_NAME FROM INFORMATION_SCHEMA.KEY_COLUMN_USAGE WHERE TABLE_SCHEMA = ? AND REFERENCED_TABLE_NAME IS NOT NULL AND TABLE_NAME IN (?, ?)">>,
    <<>>,
    <<Database, referencing, referenced>>, "catalog")

\* index.ts 218-229
getConstraintsQuery(referencing, referenced) ==
  Statement("listConstraints",
    <<"SELECT", " TABLE_NAME, CONSTRAINT_NAME, CONSTRAINT_TYPE FROM INFORMATION_SCHEMA.TABLE_CONSTRAINTS WHERE TABLE_SCHEMA = ">>
      \o escapeLiteral(Database)
      \o <<" AND TABLE_NAME IN (">> \o escapeLiteral(referencing)
      \o <<", ">> \o escapeLiteral(referenced) \o <<")">>,
    << Splice("literal", Database, escapeLiteral(Database)),
       Splice("literal", referencing, escapeLiteral(referencing)),
       Splice("literal", referenced, escapeLiteral(referenced)) >>,
    <<>>, "catalog")

\* A plausible slip: the sample statement without its LIMIT clause.
getSampleDataQueryNoLimit(op, tableName, limit) ==
  Statement(op, <<"SELECT", " * FROM ">> \o tableName,
    << Splice("identifier", tableName, tableName) >>, <<>>, "table")

\* index.ts 231-233: getSampleData interpolates its argument as it is, and
\* index.ts 240-241 hands it the table name of the descriptor row.
getSampleDataQuery(op, tableName, limit) ==
  Statement(op, <<"SELECT", " * FROM ">> \o tableName \o <<" LIMIT ", ToString(limit)>>,
    << Splice("identifier", tableName, tableName) >>, <<>>, "table")

QueryError(op) == [kind |-> "query", message |-> <<"query failed: ", op>>]

\* index.ts 174
ConstraintNotFound(name) ==
  [kind |-> "notFound", message |-> <<"No information found for constraint: ">> \o name]

Sent(q, ok) == Append(queries, [q EXCEPT !.outcome = IF ok THEN "ok" ELSE "error"])

Store(name, rows) == facts' = (name :> rows) @@ facts

\* A plausible slip: a rejected query is swallowed and read as no rows.
AwaitQuerySwallows(here, next, q, name, rows) ==
  /\ pc = here
  /\ \/ /\ queries' = Sent(q, TRUE)
        /\ Store(name, rows)
     \/ /\ queries' = Sent(q, FALSE)
        /\ Store(name, <<>>)
  /\ pc' = next
  /\ UNCHANGED <<args, debugMode, mauticError, constraintName, constraintInfo,
                 stdout, stderr, mysql, sshClient, poolEndCalls, sshEndCalls,
                 exitStatus, error>>
  /\ UNCHANGED escVars

\* const [rows] = await mysql.queryRows(q) outside any try block: the rows
\* are kept and control moves on, or the rejection propagates to main.
AwaitQuery(here, next, q, name, rows) ==
  /\ pc = here
  /\ \/ /\ queries' = Sent(q, TRUE)
        /\ Store(name, rows)
        /\ pc' = next
        /\ UNCHANGED error
     \/ /\ queries' = Sent(q, FALSE)
        /\ Throw(QueryError(q.op))
        /\ UNCHANGED facts
  /\ UNCHANGED <<args, debugMode, mauticError, constraintName, constraintInfo,
                 stdout, stderr, mysql, sshClient, poolEndCalls, sshEndCalls,
                 exitStatus>>
  /\ UNCHANGED escVars

\* constraintInfo[0]
FirstRow(rows) == rows[1]

\* A plausible slip: the emptiness check of index.ts 173 is missing.
FindConstraintNoCheck ==
  /\ pc = "findConstraint"
  /\ LET q == findConstraintQuery(constraintName)
     IN \/ \E rows \in DescriptorSets :
             /\ queries' = Sent(q, TRUE)
             /\ constraintInfo' = rows
             /\ pc' = "serverVersion"
             /\ UNCHANGED error
        \/ /\ queries' = Sent(q, FALSE)
           /\ Throw(QueryError(q.op))
           /\ UNCHANGED constraintInfo
  /\ UNCHANGED <<args, debugMode, mauticError, constraintName, facts, stdout,
                 stderr, mysql, sshClient, poolEndCalls, sshEndCalls, exitStatus>>
  /\ UNCHANGED escVars

\* index.ts 171-175
FindConstraint ==
  /\ pc = "findConstraint"
  /\ LET q == findConstraintQuery(constraintName)
     IN \/ \E rows \in DescriptorSets :
             /\ queries' = Sent(q, TRUE)
             /\ constraintInfo' = rows
             /\ IF Len(rows) = 0
                  THEN Throw(ConstraintNotFound(constraintName))
                  ELSE pc' = "serverVersion" /\ UNCHANGED error
        \/ /\ queries' = Sent(q, FALSE)
           /\ Throw(QueryError(q.op))
           /\ UNCHANGED constraintInfo
  /\ UNCHANGED <<args, debugMode, mauticError, constraintName, facts, stdout,
                 stderr, mysql, sshClient, poolEndCalls, sshEndCalls, exitStatus>>
  /\ UNCHANGED escVars

\* index.ts 177-178
ServerVersion ==
  AwaitQuery("serverVersion", "describeReferencing", versionQuery,
             "dbVersion", Rows("version", <<>>))

\* index.ts 180, 183
DescribeReferencing ==
  LET t == FirstRow(constraintInfo).referencing_table
  IN AwaitQuery("describeReferencing", "describeReferenced",
                describeQuery("describeReferencing", t),
                "referencingStructure", Rows("structure", t))

\* index.ts 181, 184
DescribeReferenced ==
  LET t == FirstRow(constraintInfo).referenced_table
  IN AwaitQuery("describeReferenced", "countReferencing",
                describeQuery("describeReferenced", t),
                "referencedStructure", Rows("structure", t))

\* index.ts 191
CountReferencing ==
  LET t == FirstRow(constraintInfo).referencing_table
  IN AwaitQuery("countReferencing", "countReferenced",
                getTableRowCountQuery("countReferencing", t),
                "referencingTableCount", Rows("count", t))

\* index.ts 192
CountReferenced ==
  LET t == FirstRow(constraintInfo).referenced_table
  IN AwaitQuery("countReferenced", "indexesReferencing",
                getTableRowCountQuery("countReferenced", t),
                "referencedTableCount", Rows("count", t))

\* index.ts 198
IndexesReferencing ==
  LET t == FirstRow(constraintInfo).referencing_table
  IN AwaitQuery("indexesReferencing", "indexesReferenced",
                getTableIndexesQuery("indexesReferencing", t),
                "referencingIndexes", Rows("indexes", t))

\* index.ts 199
IndexesReferenced ==
  LET t == FirstRow(constraintInfo).referenced_table
  IN AwaitQuery("indexesReferenced", "listForeignKeys",
                getTableIndexesQuery("indexesReferenced", t),
                "referencedIndexes", Rows("indexes", t))

\* index.ts 201-216
ListForeignKeys ==
  LET r == FirstRow(constraintInfo)
  IN AwaitQuery("listForeignKeys", "listConstraints",
                getForeignKeysQuery(r.referencing_table, r.referenced_table),
                "allForeignKeys",
                Rows("foreignKeys", r.referencing_table \o <<",">> \o r.referenced_table))

\* index.ts 218-229
ListConstraints ==
  LET r == FirstRow(constraintInfo)
  IN AwaitQuery("listConstraints", "sampleReferencing",
                getConstraintsQuery(r.referencing_table, r.referenced_table),
                "constraints",
                Rows("constraints", r.referencing_table \o <<",">> \o r.referenced_table))

(***************************************************************************)
(* generatePrompt: sample rows (index.ts 231-241).                         *)
(***************************************************************************)

\* A plausible slip: getSampleData without its try/catch.
GetSampleDataRethrows(here, next, op, name, tableName) ==
  /\ pc = here
  /\ LET q == getSampleDataQuery(op, tableName, SampleLimit)
     IN \/ /\ queries' = Sent(q, TRUE)
           /\ Store(name, Rows("sample", tableName))
           /\ pc' = next
           /\ UNCHANGED error
        \/ /\ queries' = Sent(q, FALSE)
           /\ Throw(QueryError(op))
           /\ UNCHANGED facts
  /\ UNCHANGED <<args, debugMode, mauticError, constraintName, constraintInfo,
                 stdout, stderr, mysql, sshClient, poolEndCalls, sshEndCalls,
                 exitStatus>>
  /\ UNCHANGED escVars

\* index.ts 231-239: the rows, or on a rejected query a line on console.error
\* and the empty list.
GetSampleData(here, next, op, name, tableName) ==
  /\ pc = here
  /\ LET q == getSampleDataQuery(op, tableName, SampleLimit)
     IN \/ /\ queries' = Sent(q, TRUE)
           /\ Store(name, Rows("sample", tableName))
           /\ UNCHANGED stderr
        \/ /\ queries' = Sent(q, FALSE)
           /\ stderr' = Append(stderr,
                Line("sample", <<"Error fetching sample data from ">> \o tableName))
           /\ Store(name, <<>>)
  /\ pc' = next
  /\ UNCHANGED <<args, debugMode, mauticError, constraintName, constraintInfo,
                 stdout, mysql, sshClient, poolEndCalls, sshEndCalls,
                 exitStatus, error>>
  /\ UNCHANGED escVars

\* index.ts 240
SampleReferencing ==
  GetSampleData("sampleReferencing", "sampleReferenced", "sampleReferencing",
                "referencingSampleData", FirstRow(constraintInfo).referencing_table)

\* index.ts 241
SampleReferenced ==
  GetSampleData("sampleReferenced", "return", "sampleReferenced",
                "referencedSampleData", FirstRow(constraintInfo).referenced_table)

(***************************************************************************)
(* generatePrompt: the template (index.ts 243-296), printed at index.ts    *)
(* 110.                                                                    *)
(***************************************************************************)

\* JSON.stringify(list, null, 2): every element of the list, rendered in order.
JSONstringify(list) == [i \in 1..Len(list) |-> <<"json", list[i]>>]

\* A plausible slip: only the first descriptor row is rendered.
ConstraintSectionFirstRowOnly(rows) == JSONstringify(<<rows[1]>>)

\* index.ts 249-250
ConstraintSection(rows) == JSONstringify(rows)

\* index.ts 243-296
Prompt ==
  [ mauticError           |-> mauticError,
    constraintInfo        |-> ConstraintSection(constraintInfo),
    referencingTable      |-> FirstRow(constraintInfo).referencing_table,
    referencedTable       |-> FirstRow(constraintInfo).referenced_table,
    referencingStructure  |-> JSONstringify(facts["referencingStructure"]),
    referencedStructure   |-> JSONstringify(facts["referencedStructure"]),
    allForeignKeys        |-> JSONstringify(facts["allForeignKeys"]),
    constraints           |-> JSONstringify(facts["constraints"]),
    referencingSampleData |-> JSONstringify(facts["referencingSampleData"]),
    referencedSampleData  |-> JSONstringify(facts["referencedSampleData"]),
    referencingTableCount |-> facts["referencingTableCount"],
    referencedTableCount  |-> facts["referencedTableCount"],
    referencingIndexes    |-> JSONstringify(facts["referencingIndexes"]),
    referencedIndexes     |-> JSONstringify(facts["referencedIndexes"]),
    dbVersion             |-> facts["dbVersion"],
    mauticVersion         |-> <<"3.2.5">>,
    instructions          |-> <<"ten numbered instructions", "disclaimer">> ]

\* index.ts 243 (return) and 109-110 (console.log(prompt))
PrintPrompt ==
  /\ pc = "return"
  /\ stdout' = Append(stdout, Line("prompt", Prompt))
  /\ pc' = "finally"
  /\ UNCHANGED <<args, debugMode, mauticError, constraintName, constraintInfo,
                 facts, queries, stderr, mysql, sshClient, poolEndCalls,
                 sshEndCalls, exitStatus, error>>
  /\ UNCHANGED escVars

(***************************************************************************)
(* main: catch and finally (index.ts 112-122).                             *)
(***************************************************************************)

\* index.ts 112-117
Catch ==
  /\ pc = "catch"
  /\ IF debugMode
       THEN /\ stderr' = Append(stderr, Line("error", <<"Error: ">> \o error.message))
            /\ UNCHANGED stdout
       ELSE /\ stdout' = Append(stdout, Line("error", <<"Error occurred: ">> \o error.message))
            /\ UNCHANGED stderr
  /\ pc' = "finally"
  /\ UNCHANGED <<args, debugMode, mauticError, constraintName, constraintInfo,
                 facts, queries, mysql, sshClient, poolEndCalls, sshEndCalls,
                 exitStatus, error>>
  /\ UNCHANGED escVars

\* A plausible slip: the pool is ended without checking that it exists.
FinallyPoolUnguarded ==
  /\ pc = "finally"
  /\ poolEndCalls' = poolEndCalls + 1
  /\ pc' = "finallySsh"
  /\ UNCHANGED <<args, debugMode, mauticError, constraintName, constraintInfo,
                 facts, queries, stdout, stderr, mysql, sshClient, sshEndCalls,
                 exitStatus, error>>
  /\ UNCHANGED escVars

\* index.ts 119: if (mysql) await mysql.connection.end().  When the promise
\* rejects, main() rejects with nobody handling it: the runtime reports the
\* rejection and ends the process with status 1; line 120 is not reached.
FinallyPool ==
  /\ pc = "finally"
  /\ mysql
  /\ poolEndCalls' = poolEndCalls + 1
  /\ \/ /\ pc' = "finallySsh"
        /\ UNCHANGED <<stderr, exitStatus>>
     \/ /\ pc' = "rejected"
        /\ stderr' = Append(stderr, Line("uncaught", <<"pool end failed">>))
        /\ exitStatus' = 1
  /\ UNCHANGED <<args, debugMode, mauticError, constraintName, constraintInfo,
                 facts, queries, stdout, mysql, sshClient, sshEndCalls, error>>
  /\ UNCHANGED escVars

\* index.ts 120-122: if (sshClient) sshClient.end(); main() resolves and the
\* process ends with status 0, since nothing sets another status.
FinallySsh ==
  /\ \/ pc = "finallySsh"
     \/ pc = "finally" /\ ~mysql
  /\ sshEndCalls' = IF sshClient THEN sshEndCalls + 1 ELSE sshEndCalls
  /\ pc' = "done"
  /\ exitStatus' = 0
  /\ UNCHANGED <<args, debugMode, mauticError, constraintName, constraintInfo,
                 facts, queries, stdout, stderr, mysql, sshClient, poolEndCalls,
                 error>>
  /\ UNCHANGED escVars

Next ==
  \/ ParseArgs
  \/ ExtractConstraintName
  \/ SshConnect
  \/ ForwardOut
  \/ FindConstraint
  \/ ServerVersion
  \/ DescribeReferencing
  \/ DescribeReferenced
  \/ CountReferencing
  \/ CountReferenced
  \/ IndexesReferencing
  \/ IndexesReferenced
  \/ ListForeignKeys
  \/ ListConstraints
  \/ SampleReferencing
  \/ SampleReferenced
  \/ PrintPrompt
  \/ Catch
  \/ FinallyPool
  \/ FinallySsh

Spec == Init /\ [][Next]_vars

(***************************************************************************)
(* The escapers on their own: every input up to MaxEscLen characters.      *)
(***************************************************************************)

InitEscape ==
  /\ InitMain(<<>>)
  /\ \E s \in StringsOver(EscAlphabet, MaxEscLen) : InitEsc(s)

ApplyEscapeIdentifier ==
  /\ escFn = "none"
  /\ escFn' = "escapeIdentifier"
  /\ escOut' = escapeIdentifier(escIn)
  /\ UNCHANGED <<escIn, mainVars>>

ApplyEscapeLiteral ==
  /\ escFn = "none"
  /\ escFn' = "escapeLiteral"
  /\ escOut' = escapeLiteral(escIn)
  /\ UNCHANGED <<escIn, mainVars>>

NextEscape ==
  \/ ApplyEscapeIdentifier
  \/ ApplyEscapeLiteral

SpecEscape == InitEscape /\ [][NextEscape]_vars

(***************************************************************************)
(* The whole run again, started with longer --error= values, so that the   *)
(* value can hold a '=' between other characters.                          *)
(***************************************************************************)

ErrorTextArgLists ==
  { <<ErrorPrefix \o v>> : v \in StringsOver(ErrAlphabet, MaxErrTextLen) }

InitErrorText ==
  /\ \E a \in ErrorTextArgLists : InitMain(a)
  /\ InitEsc(<<>>)

SpecErrorText == InitErrorText /\ [][Next]_vars

(***************************************************************************)
(* Vocabulary of the properties.                                           *)
(***************************************************************************)

SampleOps == {"sampleReferencing", "sampleReferenced"}
CountOps == {"countReferencing", "countReferenced"}
DescribeOps == {"describeReferencing", "describeReferenced"}
IndexOps == {"indexesReferencing", "indexesReferenced"}
TableScopedOps == DescribeOps \cup CountOps \cup IndexOps \cup SampleOps
Step3Ops ==
  TableScopedOps \cup {"serverVersion", "listForeignKeys", "listConstraints"}
\* The facts whose failure is not recovered.
RequiredOps == Step3Ops \ SampleOps

\* main has returned or rejected (the try block was entered).
RunEnded == pc \in {"done", "rejected"}
\* Control is past the try block.
AfterTry == pc \in {"finally", "finallySsh", "done", "rejected"}

PromptLines == { k \in 1..Len(stdout) : stdout[k].kind = "prompt" }
PromptPrinted == PromptLines # {}
ThePrompt == stdout[CHOOSE k \in PromptLines : TRUE].text

Issued(op) == { i \in 1..Len(queries) : queries[i].op = op }
Succeeded(op) == \E i \in Issued(op) : queries[i].outcome = "ok"
Failed(op) == \E i \in Issued(op) : queries[i].outcome = "error"

ErrorLinesOn(stream) == { k \in 1..Len(stream) : stream[k].kind = "error" }

(***************************************************************************)
(* C1                                                                      *)
(***************************************************************************)

Escaped(position, value) ==
  IF position = "identifier" THEN escapeIdentifier(value) ELSE escapeLiteral(value)

\* The dynamic values each statement depends on, in the order they are used.
DynamicValues(op) ==
  LET r == FirstRow(constraintInfo)
  IN CASE op = "findConstraint" -> <<Database, constraintName>>
       [] op = "serverVersion" -> <<>>
       [] op \in {"describeReferencing", "countReferencing",
                  "indexesReferencing", "sampleReferencing"} -> <<r.referencing_table>>
       [] op \in {"describeReferenced", "countReferenced",
                  "indexesReferenced", "sampleReferenced"} -> <<r.referenced_table>>
       [] op \in {"listForeignKeys", "listConstraints"} ->
            <<Database, r.referencing_table, r.referenced_table>>

\* A statement neutralizes each of its dynamic values by exactly one
\* mechanism: the interpolated ones are interpolated in escaped form, the
\* others are bound parameters.
Neutralized(q) ==
  /\ [i \in 1..Len(q.splices) |-> q.splices[i].value] \o q.params = DynamicValues(q.op)
  /\ \A i \in 1..Len(q.splices) :
       q.splices[i].spliced = Escaped(q.splices[i].position, q.splices[i].value)

\* C1: every statement generatePrompt issues has each dynamic value that
\* reaches its SQL text escaped (table names by escapeIdentifier, schema,
\* constraint and table-name literals by escapeLiteral), and every value not
\* escaped is passed as a bound parameter only.
C1_EveryDynamicValueNeutralized ==
  \A i \in 1..Len(queries) : Neutralized(queries[i])

\* The statements that do hold: the lookup, DESCRIBE, the bound foreign-key
\* query and the constraints query.
C1_EscapedStatementsNeutralized ==
  \A i \in 1..Len(queries) :
    queries[i].op \notin (CountOps \cup IndexOps \cup SampleOps) => Neutralized(queries[i])

(***************************************************************************)
(* C2                                                                      *)
(***************************************************************************)

LookupReturned == Len(queries) >= 1 /\ queries[1].outcome = "ok"

\* C2: a step-3 statement is issued only after the constraint lookup has
\* completed with at least one row; a lookup that returns no row fails the
\* run with the constraint-not-found error and stays the only statement.
C2_LookupGatesStep3 ==
  /\ \A i \in 1..Len(queries) :
       queries[i].op \in Step3Ops =>
         /\ i > 1
         /\ queries[1].op = "findConstraint"
         /\ LookupReturned
         /\ Len(constraintInfo) >= 1
  /\ (LookupReturned /\ Len(constraintInfo) = 0) =>
         /\ Len(queries) = 1
         /\ queries[1].op = "findConstraint"
         /\ error = ConstraintNotFound(constraintName)
         /\ pc \in {"catch", "finally", "finallySsh", "done", "rejected"}
         /\ ~PromptPrinted

C2_Witness ==
  /\ pc = "done"
  /\ LookupReturned
  /\ Len(constraintInfo) = 0
  /\ error.kind = "notFound"

(***************************************************************************)
(* C3                                                                      *)
(***************************************************************************)

\* C3 as stated: whichever of transport setup, constraint lookup or a fact
\* fetch fails, and when nothing fails, the pool's release is invoked
\* exactly once by the end of the run.
C3_PoolReleasedExactlyOnce ==
  (RunEnded /\ error.kind \in {"none", "ssh", "forward", "notFound", "query"})
    => poolEndCalls = 1

\* C3 amended: the pool's release is never invoked twice; at the end of the
\* run it has been invoked exactly once when the pool was created (the
\* lookup or a fact fetch failed, or nothing failed) and not at all when
\* the failure came before the pool existed (transport setup).
C3_PoolReleasedOnceIfCreated ==
  /\ poolEndCalls <= 1
  /\ RunEnded => poolEndCalls = (IF mysql THEN 1 ELSE 0)
  /\ (RunEnded /\ error.kind \in {"none", "notFound", "query"}) => poolEndCalls = 1
  /\ (RunEnded /\ error.kind \in {"ssh", "forward"}) => poolEndCalls = 0

C3_Witness ==
  /\ pc = "done"
  /\ error.kind = "query"
  /\ Failed("listForeignKeys")
  /\ poolEndCalls = 1

(***************************************************************************)
(* C4                                                                      *)
(***************************************************************************)

SampleSection(p, op) ==
  IF op = "sampleReferencing" THEN p.referencingSampleData ELSE p.referencedSampleData

OtherSectionsPresent(p) ==
  /\ p.mauticError = mauticError
  /\ Len(p.constraintInfo) >= 1
  /\ Len(p.referencingStructure) >= 1
  /\ Len(p.referencedStructure) >= 1
  /\ Len(p.allForeignKeys) >= 1
  /\ Len(p.constraints) >= 1
  /\ Len(p.referencingTableCount) >= 1
  /\ Len(p.referencedTableCount) >= 1
  /\ Len(p.referencingIndexes) >= 1
  /\ Len(p.referencedIndexes) >= 1
  /\ Len(p.dbVersion) >= 1
  /\ \A op \in SampleOps : Succeeded(op) => Len(SampleSection(p, op)) >= 1

\* C4: a failed sample-row statement never fails the run: no error is
\* raised, the next steps run, and the prompt is printed with an empty sample
\* list for that table and every other section present.
C4_SampleFailureNeverFailsRun ==
  \A op \in SampleOps :
    Failed(op) =>
      /\ error = NoError
      /\ pc \in {"sampleReferenced", "return", "finally", "finallySsh", "done", "rejected"}
      /\ (pc # "sampleReferenced") => Issued("sampleReferenced") # {}
      /\ AfterTry =>
           /\ PromptPrinted
           /\ SampleSection(ThePrompt, op) = <<>>
           /\ OtherSectionsPresent(ThePrompt)

C4_Witness ==
  /\ pc = "done"
  /\ Failed("sampleReferencing")
  /\ Succeeded("sampleReferenced")
  /\ PromptPrinted
  /\ ThePrompt.referencingSampleData = <<>>
  /\ ThePrompt.referencedSampleData # <<>>

(***************************************************************************)
(* C5                                                                      *)
(***************************************************************************)

\* C5: a run in which extraction, transport setup, the lookup or a
\* non-sample fact fetch failed prints an error line and ends with a nonzero
\* exit status.
C5_FailingRunExitsNonzero ==
  (RunEnded /\ error # NoError) =>
    /\ ErrorLinesOn(stdout) \cup ErrorLinesOn(stderr) # {}
    /\ exitStatus # 0

(***************************************************************************)
(* C6                                                                      *)
(***************************************************************************)

\* C6: the prompt is printed only after serverVersion, both structures,
\* both row counts, both index sets, the foreign keys and the constraints
\* have each succeeded; a failure of one of them propagates to main, no
\* prompt is printed, and no statement is issued after it or twice.
C6_PromptOnlyAfterAllFacts ==
  /\ PromptPrinted => \A op \in RequiredOps : Succeeded(op)
  /\ \A i \in 1..Len(queries) :
       (queries[i].op \in RequiredOps /\ queries[i].outcome = "error") =>
         /\ i = Len(queries)
         /\ error = QueryError(queries[i].op)
         /\ pc \in {"catch", "finally", "finallySsh", "done", "rejected"}
         /\ ~PromptPrinted
  /\ \A i, j \in 1..Len(queries) : queries[i].op = queries[j].op => i = j

C6_Witness ==
  /\ pc = "done"
  /\ Failed("countReferenced")
  /\ Succeeded("countReferencing")
  /\ ~PromptPrinted

(***************************************************************************)
(* C7                                                                      *)
(***************************************************************************)

\* The tables a pair of table-scoped statements was issued for, in order.
TablesFetched(ops) ==
  LET idx == { i \in 1..Len(queries) : queries[i].op \in ops }
      nth(k) == CHOOSE i \in idx : Cardinality({ j \in idx : j < i }) = k - 1
  IN [k \in 1..Cardinality(idx) |-> queries[nth(k)].splices[1].value]

\* C7: in a successful run structure, row count, indexes and sample rows
\* are each fetched once for the referencing and once for the referenced
\* table of the first descriptor row and for no other table, however many
\* rows the lookup returned, and every descriptor row is rendered in the
\* constraint-information section.
C7_FactsForFirstRowTables ==
  (AfterTry /\ PromptPrinted) =>
    LET r == constraintInfo[1]
    IN /\ \A ops \in {DescribeOps, CountOps, IndexOps, SampleOps} :
            TablesFetched(ops) = <<r.referencing_table, r.referenced_table>>
       /\ Len(ThePrompt.constraintInfo) = Len(constraintInfo)
       /\ \A i \in 1..Len(constraintInfo) :
            ThePrompt.constraintInfo[i] = <<"json", constraintInfo[i]>>

C7_Witness ==
  /\ pc = "done"
  /\ PromptPrinted
  /\ Len(constraintInfo) = 2
  /\ constraintInfo[1].referencing_table # constraintInfo[1].referenced_table
  /\ Len(ThePrompt.constraintInfo) = 2

(***************************************************************************)
(* C8                                                                      *)
(***************************************************************************)

\* C8: a successful run writes the prompt and nothing else to standard
\* output, with or without --debug and whether or not a sample fetch failed;
\* a failing run prints exactly one error line and no prompt.
C8_StdoutIsPromptOnly ==
  RunEnded =>
    IF error = NoError
      THEN Len(stdout) = 1 /\ stdout[1].kind = "prompt"
      ELSE /\ Cardinality(ErrorLinesOn(stdout)) + Cardinality(ErrorLinesOn(stderr)) = 1
           /\ ~PromptPrinted

\* What does hold: without --debug the claim is met.
C8_StdoutIsPromptOnlyWithoutDebug ==
  (RunEnded /\ ~debugMode) => C8_StdoutIsPromptOnly

(***************************************************************************)
(* C9                                                                      *)
(***************************************************************************)

Verb(q) == q.text[1]

EndsWithLimit(q, limit) ==
  /\ Len(q.text) >= 2
  /\ SubSeq(q.text, Len(q.text) - 1, Len(q.text)) = <<" LIMIT ", ToString(limit)>>

\* C9 as stated: every statement is a SELECT, DESCRIBE or SHOW, and the only
\* statements reading application tables are the sample fetches, each with
\* LIMIT 5.
C9_OnlySamplesReadTables ==
  \A i \in 1..Len(queries) :
    /\ Verb(queries[i]) \in {"SELECT", "DESCRIBE", "SHOW"}
    /\ queries[i].reads = "table" =>
         /\ queries[i].op \in SampleOps
         /\ EndsWithLimit(queries[i], 5)

\* C9 amended: every statement is a SELECT, DESCRIBE or SHOW; the statements
\* reading application tables are the two row counts (SELECT COUNT(*)) and
\* the two sample fetches, and each sample fetch ends in LIMIT 5.
C9_ReadOnlyCountsAndSamplesReadTables ==
  \A i \in 1..Len(queries) :
    /\ Verb(queries[i]) \in {"SELECT", "DESCRIBE", "SHOW"}
    /\ queries[i].reads = "table" <=> queries[i].op \in (SampleOps \cup CountOps)
    /\ queries[i].op \in CountOps =>
         SubSeq(queries[i].text, 1, 2) = <<"SELECT", " COUNT(*) as count FROM ">>
    /\ queries[i].op \in SampleOps => EndsWithLimit(queries[i], 5)

C9_Witness ==
  /\ pc = "done"
  /\ Succeeded("countReferenced")
  /\ Succeeded("sampleReferenced")
  /\ Len(queries) = 12

(***************************************************************************)
(* C10 (checked under SpecEscape)                                          *)
(***************************************************************************)

QuoteOf(fn) == IF fn = "escapeIdentifier" THEN BT ELSE SQ

Interior(out) == SubSeq(out, 2, Len(out) - 1)

Occurrences(s, q) == Cardinality({ i \in 1..Len(s) : s[i] = q })

\* Every maximal run of q in t has even length.
RunsEven(t, q) ==
  \A i \in 1..Len(t) : \A j \in i..Len(t) :
    ( /\ \A k \in i..j : t[k] = q
      /\ (i = 1 \/ t[i - 1] # q)
      /\ (j = Len(t) \/ t[j + 1] # q) )
    => (j - i + 1) % 2 = 0

\* Reading t as a quoted body: a doubled q stands for one q; a q on its own
\* is an unescaped quote.
RECURSIVE Undouble(_, _)
Undouble(t, q) ==
  IF t = <<>> THEN <<>>
  ELSE IF Head(t) # q THEN <<Head(t)>> \o Undouble(Tail(t), q)
  ELSE IF Len(t) >= 2 /\ t[2] = q THEN <<q>> \o Undouble(SubSeq(t, 3, Len(t)), q)
  ELSE <<"UNESCAPED">> \o Undouble(Tail(t), q)

\* C10: the escaper's output is its quote character, the input with every
\* quote character doubled, and the quote character again: between the outer
\* delimiters every maximal run of the quote character is even, one character
\* was added per quote of the input, and un-doubling gives the input back.
C10_EscapersWrapAndDouble ==
  escFn # "none" =>
    LET q == QuoteOf(escFn)
        t == Interior(escOut)
    IN /\ Len(escOut) >= 2
       /\ escOut[1] = q
       /\ escOut[Len(escOut)] = q
       /\ Len(t) = Len(escIn) + Occurrences(escIn, q)
       /\ RunsEven(t, q)
       /\ Undouble(t, q) = escIn

C10_Witness ==
  /\ escFn = "escapeIdentifier"
  /\ escIn = <<BT, "a", BT, BT>>
  /\ escOut = <<BT, BT, BT, "a", BT, BT, BT, BT, BT>>

(***************************************************************************)
(* C11 (checked under SpecErrorText)                                       *)
(***************************************************************************)

\* The text given on the command line: what follows '--error=' in the
\* argument.
SuppliedErrorText ==
  LET errorArg == findErrorArg(args)
  IN SubSeq(errorArg, Len(ErrorPrefix) + 1, Len(errorArg))

\* The supplied text up to its first '='.
RECURSIVE UpToFirstEq(_)
UpToFirstEq(s) ==
  IF s = <<>> \/ Head(s) = EQ THEN <<>> ELSE <<Head(s)>> \o UpToFirstEq(Tail(s))

\* C11: the error text in the prompt's error-message section is the
\* complete, verbatim value given with --error=, for every non-empty value,
\* also one that holds a '=' itself.
C11_PromptHoldsVerbatimErrorText ==
  PromptPrinted => ThePrompt.mauticError = SuppliedErrorText

\* What does hold: the section holds the supplied text up to its first '='.
C11_PromptHoldsTextUpToFirstEq ==
  PromptPrinted => ThePrompt.mauticError = UpToFirstEq(SuppliedErrorText)

(***************************************************************************)
(* C12                                                                     *)
(***************************************************************************)

\* C12: once the SSH client was created, its end operation has been invoked
\* by the time main finishes, on every exit path: after success, after a
\* failure inside the try block, and when ending the pool in the finally
\* block fails.
C12_SshClientEndedOnEveryExit ==
  (RunEnded /\ sshClient) => sshEndCalls >= 1

\* What does hold: the client is ended exactly once on every path on which
\* main returns, that is, unless ending the pool rejected.
C12_SshClientEndedWhenMainReturns ==
  /\ sshEndCalls <= 1
  /\ (pc = "done" /\ sshClient) => sshEndCalls = 1

====
